---- MODULE Spec2Model ----
(***************************************************************************)
(* A model of pymavlink/generator/mavgen_wlua.py: the generator of the     *)
(* Wireshark Lua dissector for MAVLink, and the dissector it generates.    *)
(*                                                                         *)
(* Two parts:                                                              *)
(*   - the run-time part: mavlink_proto.dissector (the packet framing      *)
(*     loop) and the payload procedures payload_fns.payload_<id>, stepped  *)
(*     over one input buffer: specification Spec over cut streams of two   *)
(*     packets, LiveSpec the same with the loop scheduled, PayloadSpec     *)
(*     over packets of every registered message, PairSpec over two         *)
(*     invocations that take turns, SeqSpec over invocations one after     *)
(*     another, ShortSpec over packets that declare less than the wire     *)
(*     length of their message;                                            *)
(*   - the generation-time part: the descriptor and procedure emitters     *)
(*     applied to a small input model of enums, commands and messages      *)
(*     (specifications GenSpec, FlagSpec and NameSpec).                    *)
(*                                                                         *)
(* buffer(o, n) is the host's range constructor.  Its contract, as used    *)
(* here: n = -1 means "from o to the end of the buffer"; any other range   *)
(* that is not inside the buffer raises an error, which ends the           *)
(* invocation (pc = "error").  os.date(format, t) is the host's calendar   *)
(* text of the whole seconds of t.                                         *)
(***************************************************************************)
EXTENDS Integers, Sequences, FiniteSets, TLC

(***************************************************************************)
(* Bounds of the model.                                                    *)
(***************************************************************************)
MaxGarbage == 3
MaxGap == 1
MaxPayload == 4

(***************************************************************************)
(* Lua's nil for the locals msgid, length, incompatibility_flag.           *)
(***************************************************************************)
Nil == -1

\* protocolVersions: the magic values the scan loop accepts.
protocolVersions == {253, 254, 85}

(***************************************************************************)
(* The input model of the run-time part: the messages with a registered    *)
(* payload procedure.  Each field has a fixed offset in the payload        *)
(* (offset order differs from declaration order), a width and a count.     *)
(* Besides a plain message there are one with a microsecond time stamp,    *)
(* one with a character array and a numeric array, and three command       *)
(* messages (two with arguments, one without).                             *)
(***************************************************************************)
Msgs ==
  << [id |-> 1, name |-> "M", wire_length |-> 2,
     fields |-> << [name |-> "a", type |-> "uint8_t", type_length |-> 1,
                    array_length |-> 0, offset |-> 1, enum |-> "",
                    units |-> "", display |-> ""],
                   [name |-> "b", type |-> "uint8_t", type_length |-> 1,
                    array_length |-> 0, offset |-> 0, enum |-> "",
                    units |-> "", display |-> ""] >>],
     [id |-> 2, name |-> "SYSTEM_TIME", wire_length |-> 8,
      fields |-> << [name |-> "time_unix_usec", type |-> "uint64_t",
                     type_length |-> 8, array_length |-> 0, offset |-> 0,
                     enum |-> "", units |-> "[us]", display |-> ""] >>],
     [id |-> 3, name |-> "LOG", wire_length |-> 8,
      fields |-> << [name |-> "level", type |-> "uint8_t", type_length |-> 1,
                     array_length |-> 0, offset |-> 7, enum |-> "",
                     units |-> "", display |-> ""],
                    [name |-> "text", type |-> "char", type_length |-> 1,
                     array_length |-> 3, offset |-> 4, enum |-> "",
                     units |-> "", display |-> ""],
                    [name |-> "v", type |-> "uint16_t", type_length |-> 2,
                     array_length |-> 2, offset |-> 0, enum |-> "",
                     units |-> "", display |-> ""] >>],
     [id |-> 75, name |-> "COMMAND_INT", wire_length |-> 7,
      fields |-> << [name |-> "frame", type |-> "uint8_t", type_length |-> 1,
                     array_length |-> 0, offset |-> 6, enum |-> "",
                     units |-> "", display |-> ""],
                    [name |-> "command", type |-> "uint16_t", type_length |-> 2,
                     array_length |-> 0, offset |-> 4, enum |-> "MAV_CMD",
                     units |-> "", display |-> ""],
                    [name |-> "x", type |-> "int32_t", type_length |-> 4,
                     array_length |-> 0, offset |-> 0, enum |-> "",
                     units |-> "", display |-> ""] >>],
     [id |-> 76, name |-> "COMMAND_LONG", wire_length |-> 7,
      fields |-> << [name |-> "command", type |-> "uint16_t", type_length |-> 2,
                     array_length |-> 0, offset |-> 4, enum |-> "MAV_CMD",
                     units |-> "", display |-> ""],
                    [name |-> "confirmation", type |-> "uint8_t", type_length |-> 1,
                     array_length |-> 0, offset |-> 6, enum |-> "",
                     units |-> "", display |-> ""],
                    [name |-> "param5", type |-> "float", type_length |-> 4,
                     array_length |-> 0, offset |-> 0, enum |-> "",
                     units |-> "", display |-> ""] >>],
     [id |-> 77, name |-> "COMMAND_ACK", wire_length |-> 3,
      fields |-> << [name |-> "command", type |-> "uint16_t", type_length |-> 2,
                     array_length |-> 0, offset |-> 0, enum |-> "MAV_CMD",
                     units |-> "", display |-> ""],
                    [name |-> "result", type |-> "uint8_t", type_length |-> 1,
                     array_length |-> 0, offset |-> 2, enum |-> "",
                     units |-> "", display |-> ""] >>] >>

\* the enums of the run-time input model, and the entries of its MAV_CMD enum
Enums ==
  << [name |-> "MAV_CMD", bitmask |-> FALSE,
      entry |-> << [name |-> "NAV", value |-> 16,
                    param |-> << [index |-> 5, label |-> "Lat", enum |-> ""] >>],
                   [name |-> "MAV_CMD_ENUM_END", value |-> 17, param |-> << >>] >>] >>

Cmds == Enums[1].entry

VARIABLES
  buffer,                   \* the bytes handed to the dissector
  pc,                       \* position in mavlink_proto.dissector
  offset,                   \* local offset
  msgCount,                 \* local msgCount
  version,                  \* local version
  msgid,                    \* local msgid (Nil before the header is read)
  length,                   \* local length
  incompatibility_flag,     \* local incompatibility_flag
  unknownFrameBeginOffset,  \* the global of the same name
  pktStart,                 \* offset at which the current packet's magic was found
  emitted,                  \* ranges read and added to the tree, in order
  other,                    \* the locals of a second invocation, if there is one
  xml,                      \* generate(): the input model [enums, msgs]
  gpc,                      \* generate(): the emitter that runs next
  gi,                       \* generate(): index of its for loop
  enumEntryName,            \* the emitted value -> name tables
  f,                        \* the emitted ProtoField lines, in order
  dissect_flags,            \* the emitted dissect_flags_<enum> procedures
  procs                     \* the emitted payload procedures, in order

rtvars == << buffer, pc, offset, msgCount, version, msgid, length,
             incompatibility_flag, unknownFrameBeginOffset, pktStart, emitted,
             other >>

genvars == << xml, gpc, gi, enumEntryName, f, dissect_flags, procs >>

vars == << rtvars, genvars >>

----------------------------------------------------------------------------
(***************************************************************************)
(* Input buffers.                                                          *)
(***************************************************************************)
Garbage(n) == [i \in 1..n |-> 16 + i]

PayloadBytes(n) == [i \in 1..n |-> 32 + i]

Checksum == << 193, 194 >>

SignatureBlock == [i \in 1..13 |-> 160 + i]

\* id as 3 little-endian bytes
Le24(id) == << id % 256, (id \div 256) % 256, (id \div 65536) % 256 >>

IsLegacy(magic) == magic \in {254, 85}

Packet(p) ==
  IF IsLegacy(p.magic)
  THEN << p.magic, p.len, 1, 2, 3, p.id >> \o PayloadBytes(p.len) \o Checksum
  ELSE << p.magic, p.len, p.flag, 0, 1, 2, 3 >> \o Le24(p.id)
         \o PayloadBytes(p.len) \o Checksum
         \o (IF p.flag % 2 = 1 THEN SignatureBlock ELSE << >>)

Packets ==
  [magic : {254, 85}, len : 0..MaxPayload, flag : {0}, id : {1, 9}]
  \cup [magic : {253}, len : 0..MaxPayload, flag : {0, 1, 3}, id : {1, 9}]

\* the packets that may follow a first one
NextPackets == { p \in Packets : p.len = 1 /\ p.id = 1 }

\* leading bytes that are no magic value, a packet, a gap of such bytes and
\* a second packet
Stream(g, p, h, q) == Garbage(g) \o Packet(p) \o Garbage(h) \o Packet(q)

----------------------------------------------------------------------------
(***************************************************************************)
(* The host's buffer(o, n).                                                *)
(***************************************************************************)
BufLen == Len(buffer)

\* buffer(o, n) succeeds
RangeOk(o, n) ==
  IF n = -1 THEN o >= 0 /\ o <= BufLen
  ELSE n >= 0 /\ o >= 0 /\ o + n <= BufLen

\* buffer(o, 1):uint()
ByteAt(o) == buffer[o + 1]

\* A range read from the buffer and what it was added to the tree as; text
\* is what append_text adds to it, by the payload procedure that added it.
Item(kind, name, o, n, data) ==
  [kind |-> kind, name |-> name, off |-> o, len |-> n, data |-> data,
   view |-> "buffer", text |-> "", by |-> ""]

\* The same for a range of the padded copy a payload procedure works on.
PItem(kind, name, o, n, data) ==
  [kind |-> kind, name |-> name, off |-> o, len |-> n, data |-> data,
   view |-> "padded", text |-> "", by |-> ""]

\* the index of the first range of items that buffer() refuses, or 0
FirstBad(items) ==
  LET bad == { k \in 1..Len(items) :
                 items[k].view = "buffer" /\ ~RangeOk(items[k].off, items[k].len) }
  IN  IF bad = {} THEN 0 ELSE CHOOSE k \in bad : \A j \in bad : k <= j

\* Read the ranges of items in order and add them to the tree; the first
\* refused range ends the invocation.
Emit(items, nextpc, newOffset) ==
  LET bad == FirstBad(items)
  IN  /\ emitted' = emitted \o (IF bad = 0 THEN items ELSE SubSeq(items, 1, bad))
      /\ pc' = IF bad = 0 THEN nextpc ELSE "error"
      /\ offset' = IF bad = 0 THEN newOffset ELSE offset

----------------------------------------------------------------------------
(***************************************************************************)
(* Generation time: the emitters of mavgen_wlua.py as operators on the     *)
(* input model (messages, fields, enums, commands and their params).       *)
(* Emitted text is modelled by the values filled into its template: a      *)
(* descriptor line by a record of its placeholders, a decode step by a     *)
(* record [fvar, foffset, fbytes, ...].                                    *)
(***************************************************************************)
\* Python's None for the cmd and param arguments
NoParam == [index |-> 0, label |-> "", enum |-> ""]

NoCmd == [name |-> "", value |-> Nil, param |-> << >>]

EndsWith(s, suffix) ==
  Len(s) >= Len(suffix) /\ SubSeq(s, Len(s) - Len(suffix) + 1, Len(s)) = suffix

RECURSIVE BitAnd(_, _)
\* a & b, for a >= 0 and b >= -1
BitAnd(a, b) ==
  IF a = 0 \/ b = 0 THEN 0
  ELSE IF b = -1 THEN a
  ELSE (a % 2) * (b % 2) + 2 * BitAnd(a \div 2, b \div 2)

RECURSIVE bit_length(_)
\* int.bit_length(), for n >= 0
bit_length(n) == IF n = 0 THEN 0 ELSE 1 + bit_length(n \div 2)

\* a bug: the test for zero is left out
is_power_of_2_NoZeroTest(n) == BitAnd(n, n - 1) = 0

is_power_of_2(n) == BitAnd(n, n - 1) = 0 /\ n # 0

\* first element of sequence s that satisfies Test, or default
First(s, Test(_), default) ==
  LET hit == { k \in 1..Len(s) : Test(s[k]) }
  IN  IF hit = {} THEN default ELSE s[CHOOSE k \in hit : \A j \in hit : k <= j]

NoEnum == [name |-> "", bitmask |-> FALSE, entry |-> << >>]

\* next((enum for enum in enums if enum.name == name), None)
EnumObj(enums, name) ==
  LET Named(e) == e.name = name IN First(enums, Named, NoEnum)

RECURSIVE Flatten(_)
\* the concatenation of a sequence of sequences: successive writes to outf
Flatten(ss) == IF ss = << >> THEN << >> ELSE Head(ss) \o Flatten(Tail(ss))

RECURSIVE MaxBits(_)
MaxBits(entries) ==
  IF entries = << >> THEN 0
  ELSE LET b == bit_length(Head(entries).value)
           r == MaxBits(Tail(entries))
       IN  IF b > r THEN b ELSE r

\* "ftypes." + the upper-cased type name without "_t"
FieldType(mavlink_type) ==
  CASE mavlink_type = "char" -> "ftypes.STRING"
    [] mavlink_type = "uint8_t" -> "ftypes.UINT8"
    [] mavlink_type = "int8_t" -> "ftypes.INT8"
    [] mavlink_type = "uint16_t" -> "ftypes.UINT16"
    [] mavlink_type = "int16_t" -> "ftypes.INT16"
    [] mavlink_type = "uint32_t" -> "ftypes.UINT32"
    [] mavlink_type = "int32_t" -> "ftypes.INT32"
    [] mavlink_type = "uint64_t" -> "ftypes.UINT64"
    [] mavlink_type = "int64_t" -> "ftypes.INT64"
    [] mavlink_type = "float" -> "ftypes.FLOAT"
    [] mavlink_type = "double" -> "ftypes.DOUBLE"

TvbFunc(mavlink_type) ==
  CASE mavlink_type = "char" -> "string"
    [] mavlink_type \in {"uint8_t", "uint16_t", "uint32_t"} -> "le_uint"
    [] mavlink_type \in {"int8_t", "int16_t", "int32_t"} -> "le_int"
    [] mavlink_type = "uint64_t" -> "le_uint64"
    [] mavlink_type = "int64_t" -> "le_int64"
    [] mavlink_type = "float" -> "le_float"
    [] mavlink_type = "double" -> "le_double"

\* a bug: a character array is taken for an array of one-byte elements
get_field_info_CharPerElement(field) ==
  [mavlink_type |-> field.type,
   field_type |-> FieldType(field.type),
   tvb_func |-> TvbFunc(field.type),
   size |-> field.type_length,
   count |-> IF field.array_length > 0 THEN field.array_length ELSE 1]

get_field_info(field) ==
  LET count == IF field.array_length > 0 THEN field.array_length ELSE 1
  IN  [mavlink_type |-> field.type,
       field_type |-> FieldType(field.type),
       tvb_func |-> TvbFunc(field.type),
       size |-> IF field.type = "char" THEN count ELSE field.type_length,
       count |-> IF field.type = "char" THEN 1 ELSE count]

\* a bug: the coordinate names are shifted by one
Chr_Shifted(n) ==
  CASE n = 120 -> "y" [] n = 121 -> "z" [] n = 122 -> "{" [] OTHER -> "x"

\* chr(): the characters the generator builds from a param index + 115
Chr(n) ==
  CASE n = 120 -> "x" [] n = 121 -> "y" [] n = 122 -> "z" [] OTHER -> "{"

\* ceil(bits / 4) * 4
CeilTo4(bits) == ((bits + 3) \div 4) * 4

\* the entries of enum_obj that get a flag sub-field, in declaration order
FlagEntries(enum_obj) ==
  SelectSeq(enum_obj.entry,
            LAMBDA entry : ~(~is_power_of_2(entry.value)
                             \/ EndsWith(entry.name, "_ENUM_END")))

\* One ProtoField line: its name and type; for a flag sub-field also the
\* descriptor it hangs under, the entry name and the mask.
Descriptor(fname, flabel, ftypename, ftype, fvalues) ==
  [fname |-> fname, flabel |-> flabel, ftypename |-> ftypename,
   ftype |-> ftype, fvalues |-> fvalues, parent |-> "", ename |-> "",
   fbits |-> 0, evalue |-> 0]

\* a bug: the flag sub-field is stored under its dotted filter name
FlagDescriptor_Dotted(name, entry, physical_bits) ==
  [fname |-> name \o "." \o entry.name, flabel |-> entry.name,
   ftypename |-> "", ftype |-> "bool", fvalues |-> "nil", parent |-> name,
   ename |-> entry.name, fbits |-> physical_bits, evalue |-> entry.value]

FlagDescriptor(name, entry, physical_bits) ==
  [fname |-> name \o "_flag" \o entry.name, flabel |-> entry.name,
   ftypename |-> "", ftype |-> "bool", fvalues |-> "nil", parent |-> name,
   ename |-> entry.name, fbits |-> physical_bits, evalue |-> entry.value]

\* is_field: isinstance(field_or_param, mavparse.MAVField)
generate_field_or_param(field_or_param, is_field, name, label, physical_type, field_type, enums) ==
  LET has_enum == field_or_param.enum # ""
      enum_obj == IF has_enum THEN EnumObj(enums, field_or_param.enum) ELSE NoEnum
      values ==
        IF has_enum
        THEN IF ~enum_obj.bitmask
             THEN "enumEntryName." \o field_or_param.enum
             ELSE "nil, base.HEX_DEC"
        ELSE IF is_field /\ field_or_param.display = "bitmask"
             THEN "nil, base.HEX_DEC" ELSE "nil"
      display_type == IF has_enum THEN field_or_param.enum ELSE physical_type
      ftype ==
        IF has_enum /\ field_type \in {"ftypes.FLOAT", "ftypes.DOUBLE", "ftypes.INT32"}
        THEN "ftypes.UINT32" ELSE field_type
      physical_bits == CeilTo4(MaxBits(enum_obj.entry))
      flags == FlagEntries(enum_obj)
  IN  << Descriptor(name, label, display_type, ftype, values) >>
      \o (IF has_enum /\ enum_obj.bitmask
          THEN [k \in 1..Len(flags) |-> FlagDescriptor(name, flags[k], physical_bits)]
          ELSE << >>)

generate_msg_fields(msg, enums) ==
  Flatten([k \in 1..Len(msg.fields) |->
    LET fld == msg.fields[k]
        info == get_field_info(fld)
    IN  Flatten([j \in 1..info.count |->
          LET i == j - 1
              array_text == IF info.count > 1 THEN "[" \o ToString(i) \o "]" ELSE ""
              index_text == IF info.count > 1 THEN "_" \o ToString(i) ELSE ""
              name == msg.name \o "_" \o fld.name \o index_text
              label == fld.name \o array_text
          IN  generate_field_or_param(fld, TRUE, name, label, info.mavlink_type,
                                      info.field_type, enums)])])

generate_cmd_params(cmd, enums) ==
  Flatten([k \in 1..Len(cmd.param) |->
    LET p == cmd.param[k]
        pindex == p.index
        name == "cmd_" \o cmd.name \o "_param" \o ToString(p.index)
        label == "param" \o ToString(p.index) \o ": " \o p.label
        intname == Chr(pindex + 115)
        iname == "cmd_" \o cmd.name \o "_" \o intname
        ilabel == intname \o ": " \o p.label
    IN  IF p.label # ""
        THEN generate_field_or_param(p, FALSE, name, label, "float", "ftypes.FLOAT", enums)
             \o (IF pindex >= 5
                 THEN IF pindex = 5 \/ pindex = 6
                      THEN generate_field_or_param(p, FALSE, iname, ilabel, "int32_t",
                                                   "ftypes.INT32", enums)
                      ELSE generate_field_or_param(p, FALSE, iname, ilabel, "float",
                                                   "ftypes.FLOAT", enums)
                 ELSE << >>)
        ELSE << >>])

\* dissect_flags_<enumname>: the flag entries it adds, as f[name .. "_flag<entry>"]
generate_flag_enum_dissector(enum) ==
  [enumname |-> enum.name,
   flags |-> SelectSeq(enum.entry,
                       LAMBDA entry : is_power_of_2(entry.value)
                                      /\ ~EndsWith(entry.name, "_ENUM_END"))]

\* enumEntryName[enum.name]: value -> name, as the set of its pairs
generate_enum_table(enums) ==
  [k \in 1..Len(enums) |->
     [enumname |-> enums[k].name,
      names |-> { << e.value, e.name >> :
                    e \in { enums[k].entry[j] : j \in
                              { j \in 1..Len(enums[k].entry) :
                                  ~EndsWith(enums[k].entry[j].name, "_ENUM_END") } } }]]

RECURSIVE StripBrackets(_)
\* units.replace("[", "").replace("]", "")
StripBrackets(u) ==
  IF Len(u) = 0 THEN ""
  ELSE LET c == SubSeq(u, 1, 1)
           rest == StripBrackets(SubSeq(u, 2, Len(u)))
       IN  IF c = "[" \/ c = "]" THEN rest ELSE c \o rest

unit_decoder_mapping == {"degE7", "us", "rad", "rad/s"}

\* a bug: no message kind is taken for an _INT variant
IsIntVariant_Never(msg) == FALSE

\* msg.name.endswith("_INT")
IsIntVariant(msg) == EndsWith(msg.name, "_INT")

\* The decode steps emitted for one field: one per element, each reading
\* fbytes bytes at offset + foffset of the padded view through descriptor
\* f.<fvar>; with_value: the value is extracted and passed to add_le;
\* flags_enum: the dissect_flags_<enum> call that follows, if any.
generate_field_dissector(msg, field, offset_, enums, cmd, param) ==
  LET info == get_field_info(field)
      enum_name == IF param # NoParam THEN param.enum ELSE field.enum
      enum_obj == IF enum_name # "" THEN EnumObj(enums, enum_name) ELSE NoEnum
      has_enum_obj == enum_obj # NoEnum
      unit == StripBrackets(field.units)
  IN  [j \in 1..info.count |->
        LET i == j - 1
            index_text == IF info.count > 1 THEN "_" \o ToString(i) ELSE ""
            field_var ==
              IF param # NoParam
              THEN IF IsIntVariant(msg) /\ param.index >= 5
                   THEN "cmd_" \o cmd.name \o "_" \o Chr(param.index + 115)
                   ELSE "cmd_" \o cmd.name \o "_param" \o ToString(param.index)
              ELSE msg.name \o "_" \o field.name \o index_text
        IN  [fvar |-> field_var,
             foffset |-> offset_ + i * info.size,
             fbytes |-> info.size,
             ftvbfunc |-> info.tvb_func,
             with_value |-> has_enum_obj /\ info.tvb_func # "le_uint",
             unit |-> IF unit \in unit_decoder_mapping THEN unit ELSE "",
             flags_enum |-> IF has_enum_obj /\ enum_obj.bitmask THEN enum_name ELSE ""]]

CommandKinds ==
  {"COMMAND_INT", "COMMAND_LONG", "COMMAND_ACK", "COMMAND_CANCEL",
   "MISSION_ITEM", "MISSION_ITEM_INT"}

ArgKinds == {"COMMAND_INT", "COMMAND_LONG", "MISSION_ITEM", "MISSION_ITEM_INT"}

\* msg.field_offsets: the names it has, and the offset of one
HasField(msg, name) == \E k \in 1..Len(msg.fields) : msg.fields[k].name = name

FieldOffset(msg, name) ==
  LET Named(fld) == fld.name = name IN First(msg.fields, Named, [offset |-> Nil]).offset

\* a bug: only the kinds with arguments count as command messages
has_commands_ArgsOnly(msg, cmds) ==
  cmds # << >> /\ msg.name \in ArgKinds /\ HasField(msg, "command")

has_commands(msg, cmds) ==
  cmds # << >> /\ msg.name \in CommandKinds /\ HasField(msg, "command")

\* a bug: no kind is taken to carry arguments
has_args_Never(msg, cmds) == FALSE

has_args(msg, cmds) == has_commands(msg, cmds) /\ msg.name \in ArgKinds

\* {'param1': 1, ..., 'param7': 7, 'x': 5, 'y': 6, 'z': 7}.get(field.name); 0 for None
ParamIndex(name) ==
  CASE name = "param1" -> 1 [] name = "param2" -> 2 [] name = "param3" -> 3
    [] name = "param4" -> 4 [] name = "param5" -> 5 [] name = "param6" -> 6
    [] name = "param7" -> 7 [] name = "x" -> 5 [] name = "y" -> 6
    [] name = "z" -> 7 [] OTHER -> 0

\* the param handed to generate_field_dissector for field
ParamOf(cmd, field) ==
  LET param_index == ParamIndex(field.name)
      Match(p) == p.index = param_index /\ p.label # ""
  IN  IF cmd = NoCmd \/ param_index = 0 THEN NoParam
      ELSE First(cmd.param, Match, NoParam)

\* One emitted procedure payload_fns.<key>.
PayloadProc(msg, cmds, enums, cmd) ==
  [key |-> IF cmd # NoCmd
           THEN "payload_" \o ToString(msg.id) \o "_cmd" \o ToString(cmd.value)
           ELSE "payload_" \o ToString(msg.id),
   msgid |-> msg.id,
   cmdname |-> cmd.name,
   msgbytes |-> msg.wire_length,
   has_commands |-> has_commands(msg, cmds),
   has_args |-> has_args(msg, cmds),
   cmd_foffset |-> IF has_commands(msg, cmds) THEN FieldOffset(msg, "command") ELSE Nil,
   steps |-> Flatten([k \in 1..Len(msg.fields) |->
               generate_field_dissector(msg, msg.fields[k], msg.fields[k].offset,
                                        enums, cmd, ParamOf(cmd, msg.fields[k]))])]

\* The procedures one call emits: for a command message with arguments the
\* command-specific ones first (emitted with cmds = None), then the generic one.
generate_payload_dissector(msg, cmds, enums) ==
  (IF has_args(msg, cmds)
   THEN [k \in 1..Len(cmds) |-> PayloadProc(msg, << >>, enums, cmds[k])]
   ELSE << >>)
  \o << PayloadProc(msg, cmds, enums, NoCmd) >>

----------------------------------------------------------------------------
(***************************************************************************)
(* Run time: the emitted payload procedures.                               *)
(***************************************************************************)
\* every procedure the generator emits for the run-time input model
Procs ==
  Flatten([k \in 1..Len(Msgs) |-> generate_payload_dissector(Msgs[k], Cmds, Enums)])

\* the keys of the table payload_fns
payload_fns == { Procs[k].key : k \in 1..Len(Procs) }

ProcOf(key) == LET Keyed(p) == p.key = key IN First(Procs, Keyed, PayloadProc(Msgs[1], << >>, << >>, NoCmd))

\* "payload_" .. tostring(msgnr)
FnKey(msgnr) == "payload_" \o (IF msgnr = Nil THEN "nil" ELSE ToString(msgnr))

\* ByteArray:set_size(n): cut, or extend with zero bytes
SetSize(s, n) == [i \in 1..n |-> IF i <= Len(s) THEN s[i] ELSE 0]

\* a bug: the copy is taken of the whole buffer instead of buffer(0, limit)
Padded_WholeBuffer(msgbytes, off, limit) ==
  IF off + msgbytes > limit
  THEN SetSize(buffer, off + msgbytes)
  ELSE buffer

\* a bug: the procedure never pads and reads its fields from the buffer
NeedsPad_Never(msgbytes, off, limit) == FALSE

\* does the procedure work on a padded copy
NeedsPad(msgbytes, off, limit) == off + msgbytes > limit

\* the view the field steps read: buffer, or buffer(0, limit) padded with zeros
Padded(msgbytes, off, limit) ==
  IF NeedsPad(msgbytes, off, limit)
  THEN SetSize(SubSeq(buffer, 1, limit), off + msgbytes)
  ELSE buffer

\* two bytes, little-endian
LeUint16(view, o) == view[o + 1] + 256 * view[o + 2]

\* A value read by le_uint64() is a UInt64, modelled by its bytes, least
\* significant first; one read by le_uint() is modelled the same way.
RECURSIVE ToBytes(_, _)
\* the k low bytes of the number n
ToBytes(n, k) == IF k = 0 THEN << >> ELSE << n % 256 >> \o ToBytes(n \div 256, k - 1)

RECURSIVE UInt64Less(_, _)
\* a < b, for two values of the same number of bytes
UInt64Less(a, b) ==
  IF a = << >> THEN FALSE
  ELSE IF a[Len(a)] # b[Len(a)] THEN a[Len(a)] < b[Len(a)]
  ELSE UInt64Less(SubSeq(a, 1, Len(a) - 1), SubSeq(b, 1, Len(a) - 1))

\* a bug: a value equal to the other counts as greater
UInt64Greater_OrEqual(a, b) == ~UInt64Less(a, b)

\* a > b
UInt64Greater(a, b) == UInt64Less(b, a)

RECURSIVE UInt64Mod(_, _)
\* a % m, for a number m < 2^22
UInt64Mod(a, m) ==
  IF a = << >> THEN 0 ELSE (UInt64Mod(Tail(a), m) * 256 + Head(a)) % m

RECURSIVE UInt64Div(_, _)
\* the whole part of a / m, when it is below 2^31
UInt64Div(a, m) ==
  IF a = << >> THEN 0
  ELSE UInt64Div(Tail(a), m) * 256 + (UInt64Mod(Tail(a), m) * 256 + Head(a)) \div m

\* UInt64.new(0, 0x40000): the high word is 0x40000
time_usec_threshold == ToBytes(0, 4) \o ToBytes(262144, 4)

RECURSIVE Zeros(_)
Zeros(n) == IF n <= 0 THEN "" ELSE "0" \o Zeros(n - 1)

\* string.format("%06d", n)
Format06d(n) == Zeros(6 - Len(ToString(n))) \o ToString(n)

\* os.date("%Y-%m-%d %H:%M:%S", t) and os.date(" %Z", t): the host's
\* calendar text of the whole seconds of t, and its time zone name
os_date(secs) == "date(" \o ToString(secs) \o ")"

os_date_Z(secs) == " %Z"

\* time_usec_decode(value): the text appended to a field of unit us
time_usec_decode(value) ==
  LET v == SetSize(value, 8)
      secs == UInt64Div(v, 1000000)
      us == Format06d(UInt64Mod(v, 1000000))
  IN  IF UInt64Greater(v, time_usec_threshold)
      THEN " (" \o os_date(secs) \o "." \o us \o os_date_Z(secs) \o ")"
      ELSE IF UInt64Less(v, ToBytes(1000000, 8)) THEN ""
      ELSE " (" \o ToString(secs) \o "." \o us \o " s)"

\* subtree:append_text(<decoder of the unit>): the decoders other than
\* time_usec_decode format a floating point number, shown here by the unit
append_text(unit, value) ==
  CASE unit = "" -> ""
    [] unit = "us" -> time_usec_decode(value)
    [] OTHER -> " (" \o unit \o ")"

\* the read buffer(0, limit) of a procedure that pads
PadItems(proc, off, limit) ==
  IF NeedsPad(proc.msgbytes, off, limit)
  THEN << Item("pad", proc.key, 0, limit, << >>) >> ELSE << >>

\* the field steps of a procedure, run in order on its view
FieldItems(proc, off, limit) ==
  LET pad == NeedsPad(proc.msgbytes, off, limit)
      padded == Padded(proc.msgbytes, off, limit)
      Read(st) ==
        LET o == off + st.foffset
            data == SubSeq(padded, o + 1, o + st.fbytes)
            it == IF pad THEN PItem("field", st.fvar, o, st.fbytes, data)
                  ELSE Item("field", st.fvar, o, st.fbytes, data)
        IN  [it EXCEPT !.text = append_text(st.unit, data), !.by = proc.key]
  IN  [k \in 1..Len(proc.steps) |-> Read(proc.steps[k])]

\* enumEntryName.MAV_CMD[cmd_id], "" for nil
CmdName(cmd_id) ==
  LET Is(c) == c.value = cmd_id /\ ~EndsWith(c.name, "_ENUM_END")
  IN  First(Cmds, Is, NoCmd).name

\* fn(buffer, payload, msgid, offset, limit, pinfo): what the procedure reads
\* and adds, in order
ExecProc(proc, off, limit) ==
  LET pad == NeedsPad(proc.msgbytes, off, limit)
      padded == Padded(proc.msgbytes, off, limit)
      co == off + proc.cmd_foffset
      cmd_id == LeUint16(padded, co)
      cmd_key == proc.key \o "_cmd" \o ToString(cmd_id)
      cmd_data == SubSeq(padded, co + 1, co + 2)
  IN  PadItems(proc, off, limit)
      \o (IF proc.has_commands
          THEN << (IF pad THEN PItem("cmd_id", "", co, 2, cmd_data)
                   ELSE Item("cmd_id", "", co, 2, cmd_data)) >>
               \o (IF CmdName(cmd_id) # ""
                   THEN << PItem("info", CmdName(cmd_id), 0, 0, << >>) >> ELSE << >>)
          ELSE << >>)
      \o (IF proc.has_args /\ cmd_key \in payload_fns
          THEN PadItems(ProcOf(cmd_key), off, limit)
               \o FieldItems(ProcOf(cmd_key), off, limit)
          ELSE FieldItems(proc, off, limit))

----------------------------------------------------------------------------
(***************************************************************************)
(* Run time: mavlink_proto.dissector, one action per stretch of its loop.  *)
(***************************************************************************)
\* no second invocation
NoOther == [pc |-> "none"]

\* The dissector is handed a buffer: a stream, or any part of it that a
\* capture cut short.
Init ==
  /\ \E g \in 0..MaxGarbage, p \in Packets, h \in 0..MaxGap, q \in NextPackets :
       \E n \in 1..Len(Stream(g, p, h, q)) :
         buffer = SubSeq(Stream(g, p, h, q), 1, n)
  /\ pc = "loop"
  /\ offset = 0
  /\ msgCount = 0
  /\ version = Nil
  /\ msgid = Nil
  /\ length = Nil
  /\ incompatibility_flag = Nil
  /\ unknownFrameBeginOffset = 0
  /\ pktStart = Nil
  /\ emitted = << >>
  /\ other = NoOther
  /\ xml = [enums |-> Enums, msgs |-> Msgs]
  /\ gpc = "done"
  /\ gi = 0
  /\ enumEntryName = << >>
  /\ f = << >>
  /\ dissect_flags = << >>
  /\ procs = Procs

\* while (offset < buffer:len()): a new iteration reads the version byte
Loop ==
  /\ pc = "loop"
  /\ IF offset < BufLen
     THEN /\ msgCount' = msgCount + 1
          /\ version' = ByteAt(offset)
          /\ pc' = "scan"
     ELSE /\ pc' = "done"
          /\ UNCHANGED << msgCount, version >>
  /\ UNCHANGED << buffer, offset, msgid, length, incompatibility_flag,
                  unknownFrameBeginOffset, pktStart, emitted, other, genvars >>

\* one pass of the inner while (true): an unknown version byte is skipped
\* and the start of the unknown span recorded; at the end of the buffer the
\* span is printed and the dissector returns
ScanUnknown ==
  /\ pc = "scan"
  /\ version \notin protocolVersions
  /\ LET begin == IF unknownFrameBeginOffset = 0 THEN offset
                  ELSE unknownFrameBeginOffset
         next == offset + 1
     IN  IF next < BufLen
         THEN /\ version' = ByteAt(next)
              /\ offset' = next
              /\ unknownFrameBeginOffset' = begin
              /\ pc' = "scan"
              /\ UNCHANGED emitted
         ELSE /\ IF begin # 0
                 THEN /\ Emit(<< Item("rawpayload", "Unknown message", begin,
                                      next - begin, << >>) >>, "done", next)
                      /\ unknownFrameBeginOffset' = IF pc' = "error" THEN begin ELSE 0
                 ELSE /\ offset' = next
                      /\ pc' = "done"
                      /\ unknownFrameBeginOffset' = begin
                      /\ UNCHANGED emitted
              /\ UNCHANGED version
  /\ UNCHANGED << buffer, msgCount, msgid, length, incompatibility_flag, pktStart,
                  other, genvars >>

\* a bug: the pending unknown span is printed and its start marker kept
ScanFound_KeepsMarker ==
  /\ pc = "scan"
  /\ version \in protocolVersions
  /\ IF unknownFrameBeginOffset # 0
     THEN /\ Emit(<< Item("rawpayload", "Unknown message", unknownFrameBeginOffset,
                          offset - unknownFrameBeginOffset, << >>) >>, "done", offset)
          /\ UNCHANGED << unknownFrameBeginOffset, pktStart >>
     ELSE /\ pc' = "header"
          /\ pktStart' = offset
          /\ UNCHANGED << offset, unknownFrameBeginOffset, emitted >>
  /\ UNCHANGED << buffer, msgCount, version, msgid, length, incompatibility_flag,
                  other, genvars >>

\* a known version byte leaves the inner loop; a pending unknown span is
\* printed and the break that follows leaves the enclosing while loop; the
\* marker is reset after the range is read, so not when that read fails
ScanFound ==
  /\ pc = "scan"
  /\ version \in protocolVersions
  /\ IF unknownFrameBeginOffset # 0
     THEN /\ Emit(<< Item("rawpayload", "Unknown message", unknownFrameBeginOffset,
                          offset - unknownFrameBeginOffset, << >>) >>, "done", offset)
          /\ unknownFrameBeginOffset' =
               IF pc' = "error" THEN unknownFrameBeginOffset ELSE 0
          /\ UNCHANGED pktStart
     ELSE /\ pc' = "header"
          /\ pktStart' = offset
          /\ UNCHANGED << offset, unknownFrameBeginOffset, emitted >>
  /\ UNCHANGED << buffer, msgCount, version, msgid, length, incompatibility_flag,
                  other, genvars >>

\* the size of the header the HEADER section decodes for a version byte;
\* 0 when it has no branch for it
HeaderSize(v) == CASE v = 254 -> 6 [] v = 253 -> 10 [] OTHER -> 0

\* the test of the HEADER section for a normal header
HeaderFits(size) == BufLen - 2 - offset > size

\* HEADER: the locals msgid, length and incompatibility_flag are declared
\* (nil), then set by the branch of the version byte
Header ==
  /\ pc = "header"
  /\ LET hsize == BufLen - 2 - offset IN
     IF version = 254
     THEN IF HeaderFits(6)
          THEN /\ Emit(<< Item("header", "", offset, 6, SubSeq(buffer, offset + 1, offset + 6)) >>,
                       "body", offset + 6)
               /\ length' = ByteAt(offset + 1)
               /\ msgid' = ByteAt(offset + 5)
               /\ incompatibility_flag' = Nil
          ELSE /\ Emit(<< Item("rawheader", "", offset, hsize, << >>) >>,
                       "body", offset + hsize)
               /\ length' = Nil
               /\ msgid' = Nil
               /\ incompatibility_flag' = Nil
     ELSE IF version = 253
     THEN IF HeaderFits(10)
          THEN /\ Emit(<< Item("header", "", offset, 10, SubSeq(buffer, offset + 1, offset + 10)) >>,
                       "body", offset + 10)
               /\ length' = ByteAt(offset + 1)
               /\ incompatibility_flag' = ByteAt(offset + 2)
               /\ msgid' = ByteAt(offset + 7) + 256 * ByteAt(offset + 8)
                             + 65536 * ByteAt(offset + 9)
          ELSE /\ Emit(<< Item("rawheader", "", offset, hsize, << >>) >>,
                       "body", offset + hsize)
               /\ length' = Nil
               /\ msgid' = Nil
               /\ incompatibility_flag' = Nil
     ELSE /\ pc' = "body"
          /\ length' = Nil
          /\ msgid' = Nil
          /\ incompatibility_flag' = Nil
          /\ UNCHANGED << offset, emitted >>
  /\ UNCHANGED << buffer, msgCount, version, unknownFrameBeginOffset, pktStart,
                  other, genvars >>

\* a bug: the limit is not cut at the bytes kept for the checksum
Limit_Declared(off, len) == off + len

\* the limit the BODY section computes
Limit(off, len) ==
  IF off + len < BufLen - 2 THEN off + len ELSE BufLen - 2

\* the size of the raw payload of a message without a payload procedure
RawPayloadSize(off) == BufLen - 2 - off

\* BODY: the payload procedure of the message id, or the raw payload
Body ==
  /\ pc = "body"
  /\ LET key == FnKey(msgid)
         len == IF length # Nil THEN length ELSE 0
         limit == Limit(offset, len)
         size == RawPayloadSize(offset)
     IN  /\ length' = len
         /\ IF key \notin payload_fns
            THEN Emit(<< Item("rawpayload", "Unknown message type", offset, size, << >>) >>,
                      "crc", offset + size)
            ELSE Emit(<< Item("payload", key, offset, limit - offset, << >>) >>
                        \o ExecProc(ProcOf(key), offset, limit),
                      "crc", limit)
  /\ UNCHANGED << buffer, msgCount, version, msgid, incompatibility_flag,
                  unknownFrameBeginOffset, pktStart, other, genvars >>

\* a bug: the checksum is read and the offset left where it is
Crc_NoAdvance ==
  /\ pc = "crc"
  /\ Emit(<< Item("crc", "", offset, 2, << >>) >>, "signature", offset)
  /\ UNCHANGED << buffer, msgCount, version, msgid, length, incompatibility_flag,
                  unknownFrameBeginOffset, pktStart, other, genvars >>

\* CRC
Crc ==
  /\ pc = "crc"
  /\ Emit(<< Item("crc", "", offset, 2, << >>) >>, "signature", offset + 2)
  /\ UNCHANGED << buffer, msgCount, version, msgid, length, incompatibility_flag,
                  unknownFrameBeginOffset, pktStart, other, genvars >>

\* a bug: the flags are not looked at
IsSigned_AnyFlags(v, flag) == v = 253

\* the test of the SIGNATURE section
IsSigned(v, flag) == v = 253 /\ flag = 1

\* SIGNATURE, and the end of the loop body
Signature ==
  /\ pc = "signature"
  /\ IF IsSigned(version, incompatibility_flag)
     THEN Emit(<< Item("signature_link", "", offset, 1, << >>),
                  Item("signature_time", "", offset + 1, 6, << >>),
                  Item("signature_signature", "", offset + 7, 6, << >>) >>,
               "loop", offset + 13)
     ELSE /\ pc' = "loop"
          /\ UNCHANGED << offset, emitted >>
  /\ UNCHANGED << buffer, msgCount, version, msgid, length, incompatibility_flag,
                  unknownFrameBeginOffset, pktStart, other, genvars >>

Next ==
  \/ Loop
  \/ ScanUnknown
  \/ ScanFound
  \/ Header
  \/ Body
  \/ Crc
  \/ Signature

Spec == Init /\ [][Next]_vars

\* the locals of the running invocation
Locals ==
  [buffer |-> buffer, pc |-> pc, offset |-> offset, msgCount |-> msgCount,
   version |-> version, msgid |-> msgid, length |-> length,
   incompatibility_flag |-> incompatibility_flag, pktStart |-> pktStart,
   emitted |-> emitted]

\* the locals of an invocation at its entry, on buffer b
AtEntry(b) ==
  [buffer |-> b, pc |-> "loop", offset |-> 0, msgCount |-> 0, version |-> Nil,
   msgid |-> Nil, length |-> Nil, incompatibility_flag |-> Nil, pktStart |-> Nil,
   emitted |-> << >>]

\* Two invocations, each on its own buffer, take turns: the one that waits
\* goes on and the running one waits.  Each has its locals; the global
\* unknownFrameBeginOffset is the same one for both.
Switch ==
  /\ other.pc \notin {"none", "done", "error"}
  /\ buffer' = other.buffer
  /\ pc' = other.pc
  /\ offset' = other.offset
  /\ msgCount' = other.msgCount
  /\ version' = other.version
  /\ msgid' = other.msgid
  /\ length' = other.length
  /\ incompatibility_flag' = other.incompatibility_flag
  /\ pktStart' = other.pktStart
  /\ emitted' = other.emitted
  /\ other' = Locals
  /\ UNCHANGED << unknownFrameBeginOffset, genvars >>

PairNext ==
  \/ Next
  \/ Switch

----------------------------------------------------------------------------
(***************************************************************************)
(* Properties of the run-time part (specification Spec).                   *)
(***************************************************************************)
Last(s) == s[Len(s)]

Finished == pc \in {"done", "error"}

\* the items of a kind, in order
OfKind(kind) == SelectSeq(emitted, LAMBDA it : it.kind = kind)

\* where the payload of the current packet starts when its header is whole
PayloadStart == pktStart + HeaderSize(version)

\* the legacy-header packets of the inputs with a registered message id
LegacyKnown == { p \in Packets : p.magic = 254 /\ p.id = 1 }

\* C1: n >= 1 bytes that are no magic value followed by one well-formed
\* 0xFE packet of a registered message: exactly one raw unparsed range,
\* covering the n leading bytes, and then that packet is decoded (header,
\* payload, checksum) in the same invocation.
C1_ResyncThenDecode ==
  \A n \in 1..MaxGarbage : \A p \in LegacyKnown :
    (buffer = Garbage(n) \o Packet(p) /\ Finished) =>
      /\ Len(OfKind("rawpayload")) = 1
      /\ Len(emitted) >= 4
      /\ emitted[1] = Item("rawpayload", "Unknown message", 0, n, << >>)
      /\ emitted[2].kind = "header" /\ emitted[2].off = n
      /\ emitted[3].kind = "payload" /\ emitted[3].off = n + 6
      /\ Last(emitted).kind = "crc"

\* C2: a whole header with a message id that has no payload procedure: one
\* raw payload range [payload_start, limit), limit the smaller of
\* payload_start + declared length and buffer length - 2; the checksum is
\* then read at limit.
C2_UnknownIdRawRange ==
  (pc = "crc" /\ msgid # Nil /\ FnKey(msgid) \notin payload_fns) =>
    /\ Last(emitted).kind = "rawpayload"
    /\ Last(emitted).off = PayloadStart
    /\ Last(emitted).off + Last(emitted).len = Limit(PayloadStart, length)
    /\ offset = Limit(PayloadStart, length)

\* the index of the payload item of the packet whose BODY has just run
LastPayloadIdx ==
  LET ks == { k \in 1..Len(emitted) : emitted[k].kind = "payload" }
  IN  CHOOSE k \in ks : \A j \in ks : j <= k

\* the field items of the packet whose BODY has just run
LastFields ==
  { emitted[k] : k \in { j \in (LastPayloadIdx + 1)..Len(emitted) :
                           emitted[j].kind = "field" } }

\* a registered message has just been decoded and its declared payload
\* length exceeds the bytes present in the buffer
DecodedTruncated ==
  /\ pc = "crc"
  /\ FnKey(msgid) \in payload_fns
  /\ PayloadStart + length > BufLen

\* the buffer reads of the procedure lie inside the buffer
ReadsInside ==
  \A k \in (LastPayloadIdx + 1)..Len(emitted) :
    emitted[k].view = "buffer" =>
      emitted[k].off >= 0 /\ emitted[k].len >= 0
        /\ emitted[k].off + emitted[k].len <= BufLen

\* every decoded byte at a position below bound has its buffer value, and
\* every one at or beyond bound is zero
DecodedAgainst(bound) ==
  \A it \in LastFields : \A j \in 1..it.len :
    LET pos == it.off + j - 1
    IN  IF pos < bound THEN it.data[j] = buffer[pos + 1] ELSE it.data[j] = 0

\* C3 as stated: the bound between original and zero bytes is the end of
\* the buffer.
C3_PresentBytesKept ==
  DecodedTruncated => ReadsInside /\ DecodedAgainst(BufLen)

\* C3 as amended: when the declared payload length of a registered message
\* exceeds the bytes present, the procedure reads no buffer byte at or
\* beyond the end, every decoded position at or beyond buffer length - 2
\* (the two bytes kept for the checksum) reads as zero, and every byte
\* before it has its buffer value.
C3_BytesBeforeChecksumKept ==
  DecodedTruncated => ReadsInside /\ DecodedAgainst(BufLen - 2)

C3_Witness ==
  /\ DecodedTruncated
  /\ \E it \in LastFields : it.off < BufLen - 2 /\ it.data[1] # 0
  /\ \E it \in LastFields : it.off >= BufLen - 2 /\ it.view = "padded"

\* every range read from the buffer has a length >= 0 and lies inside it
RangesInside ==
  \A k \in 1..Len(emitted) :
    emitted[k].view = "buffer" =>
      emitted[k].len >= 0 /\ emitted[k].off >= 0
        /\ emitted[k].off + emitted[k].len <= BufLen

\* C4: for every buffer, every range read or emitted has a length >= 0 and
\* lies inside the buffer, the scan offset never moves backwards, and no
\* read fails.
C4_NoFailingRead ==
  /\ [](RangesInside /\ pc # "error")
  /\ [][offset' >= offset]_vars

\* the incompatibility flags byte of the current packet, in the buffer
OwnFlags == buffer[pktStart + 3]

\* the trailer of a packet has run to its end
TrailerDone == pc = "loop" /\ msgCount > 0

\* C5: a packet with the 10-byte header and bit 0 of its incompatibility
\* flags set has a 13-byte signature block consumed right after its
\* checksum.
C5_SignedByBitZero ==
  (TrailerDone /\ version = 253 /\ incompatibility_flag # Nil
     /\ incompatibility_flag % 2 = 1) =>
    /\ Len(emitted) >= 4
    /\ emitted[Len(emitted) - 3].kind = "crc"
    /\ Last(emitted).kind = "signature_signature"
    /\ offset = emitted[Len(emitted) - 3].off + 2 + 13

\* the header of the current packet was decoded as the 10-byte variant
OwnHeaderCurrent ==
  \E k \in 1..Len(emitted) :
    emitted[k].kind = "header" /\ emitted[k].off = pktStart /\ emitted[k].len = 10

\* C6: the trailer of every packet reads exactly 2 checksum bytes, and a
\* signature block is read only when the packet's own header is the 10-byte
\* variant and bit 0 of its own incompatibility flags is set.
C6_TrailerShape ==
  [][ /\ (pc = "crc" =>
            /\ Last(emitted') = Item("crc", "", offset, 2, << >>)
            /\ Len(emitted') = Len(emitted) + 1
            /\ (pc' # "error" => offset' = offset + 2))
      /\ ((pc = "signature" /\ (offset' # offset \/ emitted' # emitted)) =>
            /\ version = 253
            /\ OwnHeaderCurrent
            /\ OwnFlags % 2 = 1) ]_vars

C6_Witness ==
  /\ TrailerDone
  /\ Last(emitted).kind = "signature_signature"
  /\ \E k \in 1..Len(emitted) : emitted[k].kind = "header" /\ emitted[k].len = 6

\* C7: a 0x55 packet is decoded with the 6-byte legacy header layout: the
\* header fields are read from the 5 bytes after the magic, the payload
\* starts at packet start + 6 and the message id is the byte at + 5.
C7_Magic55LegacyHeader ==
  (pc = "body" /\ version = 85 /\ BufLen - 2 - pktStart > 6) =>
    /\ emitted # << >>
    /\ Last(emitted).kind = "header"
    /\ Last(emitted).off = pktStart /\ Last(emitted).len = 6
    /\ offset = pktStart + 6
    /\ length = buffer[pktStart + 2]
    /\ msgid = buffer[pktStart + 6]

\* C8: a header is decoded as structured fields whenever at least
\* header_size bytes remain before the trailing 2 checksum bytes, and the
\* raw incomplete-header range is emitted only when fewer remain.
C8_HeaderAtLeastSize ==
  (pc = "body" /\ version \in {253, 254}) =>
    /\ (BufLen - 2 - pktStart >= HeaderSize(version) =>
          Last(emitted).kind = "header" /\ Last(emitted).off = pktStart)
    /\ (BufLen - 2 - pktStart < HeaderSize(version) =>
          Last(emitted).kind = "rawheader")

\* the state of an invocation at its entry, on the procedures emitted for
\* the run-time input model
Entered ==
  /\ pc = "loop"
  /\ offset = 0
  /\ msgCount = 0
  /\ version = Nil
  /\ msgid = Nil
  /\ length = Nil
  /\ incompatibility_flag = Nil
  /\ pktStart = Nil
  /\ emitted = << >>
  /\ xml = [enums |-> Enums, msgs |-> Msgs]
  /\ gpc = "done"
  /\ gi = 0
  /\ enumEntryName = << >>
  /\ f = << >>
  /\ dissect_flags = << >>
  /\ procs = Procs

\* the buffers of a packet and a legacy packet of the registered message
\* back to back, after at most MaxGap bytes that are no magic value, and
\* every part of them a capture cut short
LiveInit ==
  /\ \E g \in 0..MaxGap, p \in Packets, q \in NextPackets \cap LegacyKnown :
       \E n \in 1..Len(Stream(g, p, 0, q)) :
         buffer = SubSeq(Stream(g, p, 0, q), 1, n)
  /\ unknownFrameBeginOffset = 0
  /\ other = NoOther
  /\ Entered

\* the dissector with its loop scheduled: a step that can be taken is taken
LiveSpec == LiveInit /\ [][Next]_vars /\ WF_vars(Next)

\* C12: for every finite buffer the dissector terminates: scanning never
\* moves the offset back, every iteration of the outer loop that runs to its
\* end leaves the offset beyond the place its packet started at, the number
\* of iterations is at most the buffer length, and the invocation ends.
C12_Terminates ==
  /\ <>Finished
  /\ [](msgCount <= BufLen)
  /\ [][pc = "scan" => offset' >= offset]_vars
  /\ [][(pc = "signature" /\ pc' = "loop") => offset' > pktStart]_vars

C12_Witness ==
  /\ pc = "done"
  /\ msgCount = 2
  /\ Len(OfKind("crc")) = 2
  /\ offset = BufLen

\* C15: a buffer of n >= 1 bytes none of which is a magic value: exactly one
\* raw unparsed range [0, n) is emitted and the invocation ends without a
\* header, payload or checksum.
C15_AllUnknownOneRange ==
  \A n \in 1..MaxGarbage :
    (buffer = Garbage(n) /\ Finished) =>
      /\ pc = "done"
      /\ emitted = << Item("rawpayload", "Unknown message", 0, n, << >>) >>

\* the header of the current packet was decoded as structured fields
OwnHeaderDecoded ==
  /\ version \in {253, 254}
  /\ \E k \in 1..Len(emitted) :
       /\ emitted[k].kind = "header"
       /\ emitted[k].off = pktStart
       /\ emitted[k].len = HeaderSize(version)

\* the message id and the declared payload length of the current packet, in
\* the buffer
OwnMsgId ==
  IF version = 254 THEN buffer[pktStart + 6]
  ELSE buffer[pktStart + 8] + 256 * buffer[pktStart + 9] + 65536 * buffer[pktStart + 10]

OwnLength == buffer[pktStart + 2]

\* the current packet has a decoded header and a registered message id
OwnRegistered == OwnHeaderDecoded /\ FnKey(OwnMsgId) \in payload_fns

\* the end of the payload of the current packet
OwnLimit ==
  IF PayloadStart + OwnLength < BufLen - 2 THEN PayloadStart + OwnLength
  ELSE BufLen - 2

C17_TruncatedHeaderStops ==
  \A k \in 1..Len(emitted) :
    (/\ emitted[k].kind = "rawheader"
     /\ emitted[k].len >= 0
     /\ emitted[k].len < HeaderSize(buffer[emitted[k].off + 1])) =>
      k = Len(emitted)

\* the buffers of the two invocations: one legacy packet of the registered
\* message, and at most MaxGap + 1 bytes that are no magic value after it
PairBuffers ==
  { Packet(p) \o Garbage(h) : p \in NextPackets \cap LegacyKnown, h \in 0..(MaxGap + 1) }

PairInit ==
  /\ \E a \in PairBuffers, b \in PairBuffers :
       /\ buffer = a
       /\ other = AtEntry(b)
  /\ unknownFrameBeginOffset = 0
  /\ Entered

PairSpec == PairInit /\ [][PairNext]_vars

\* what the dissector emits for a buffer that is the legacy packet p of the
\* registered message: its header, its payload with the fields, its checksum
Alone(p) ==
  << Item("header", "", 0, 6, SubSeq(Packet(p), 1, 6)),
     Item("payload", "payload_1", 6, p.len, << >>) >>
  \o ExecProc(ProcOf("payload_1"), 6, 6 + p.len)
  \o << Item("crc", "", 6 + p.len, 2, << >>) >>

\* C13: a decode reads and writes only its own state and tables that do not
\* change, so a buffer decoded in turns with another one gets the ranges it
\* gets when decoded alone; here for a buffer that is one whole packet with
\* a payload.
C13_InterleavedAsAlone ==
  \A p \in LegacyKnown :
    (p.len >= 1 /\ buffer = Packet(p) /\ Finished) =>
      pc = "done" /\ emitted = Alone(p)

----------------------------------------------------------------------------
(***************************************************************************)
(* Run time: one buffer decoded after another (specification SeqSpec).     *)
(* The host calls the dissector once per buffer; the locals start afresh   *)
(* at every call and the global unknownFrameBeginOffset is the one set at  *)
(* load time.                                                              *)
(***************************************************************************)
\* the number of buffers decoded one after another
MaxDecodes == 3

\* g bytes that are no magic value, a packet, and h such bytes again; the
\* buffers decoded are these for g <= MaxGap + 1 and h <= MaxGap, and every
\* part of them a capture cut short
Framed(g, p, h) == Garbage(g) \o Packet(p) \o Garbage(h)

\* the calls the host still makes: how many, and whether a call made so far
\* printed an unknown span
Later(n, u) == [pc |-> "later", left |-> n, unknown |-> u]

\* did the invocation print an unknown span
PrintedUnknown ==
  \E k \in 1..Len(emitted) : emitted[k].name = "Unknown message"

SeqInit ==
  /\ \E g \in 0..(MaxGap + 1), p \in NextPackets, h \in 0..MaxGap :
       \E n \in 1..Len(Framed(g, p, h)) :
         buffer = SubSeq(Framed(g, p, h), 1, n)
  /\ unknownFrameBeginOffset = 0
  /\ other = Later(MaxDecodes - 1, FALSE)
  /\ Entered

\* the invocation has returned (or failed) and the host calls the dissector
\* on the next buffer: local offset = 0, local msgCount = 0, the other
\* locals not yet declared; the global keeps the value it has
Again ==
  /\ Finished
  /\ other.pc = "later"
  /\ other.left > 0
  /\ \E g \in 0..(MaxGap + 1), p \in NextPackets, h \in 0..MaxGap :
       \E n \in 1..Len(Framed(g, p, h)) :
         buffer' = SubSeq(Framed(g, p, h), 1, n)
  /\ pc' = "loop"
  /\ offset' = 0
  /\ msgCount' = 0
  /\ version' = Nil
  /\ msgid' = Nil
  /\ length' = Nil
  /\ incompatibility_flag' = Nil
  /\ pktStart' = Nil
  /\ emitted' = << >>
  /\ other' = Later(other.left - 1, other.unknown \/ PrintedUnknown)
  /\ UNCHANGED << unknownFrameBeginOffset, genvars >>

SeqNext ==
  \/ Next
  \/ Again

SeqSpec == SeqInit /\ [][SeqNext]_vars

\* C21: after any sequence of buffer decodes an invocation starts with no
\* unknown span pending: the start marker is 0 whenever an invocation has
\* returned or left its loop and whenever one starts, and a buffer that is
\* one whole legacy packet gets the ranges it gets when it is the first
\* buffer decoded.
C21_MarkerClearBetweenDecodes ==
  /\ Finished => unknownFrameBeginOffset = 0
  /\ (pc = "loop" /\ msgCount = 0) => unknownFrameBeginOffset = 0
  /\ \A p \in NextPackets \cap LegacyKnown :
       (buffer = Packet(p) /\ Finished) => pc = "done" /\ emitted = Alone(p)

C21_Witness ==
  /\ other.pc = "later"
  /\ other.left = 0
  /\ other.unknown
  /\ pc = "done"
  /\ unknownFrameBeginOffset = 0
  /\ \E p \in NextPackets \cap LegacyKnown : buffer = Packet(p) /\ emitted = Alone(p)

----------------------------------------------------------------------------
(***************************************************************************)
(* Run time: packets of every registered message, with payloads chosen for *)
(* what their procedures do (specification PayloadSpec).                   *)
(***************************************************************************)
\* a packet of a message id with a payload, unsigned
PacketOf(magic, id, payload) ==
  IF IsLegacy(magic)
  THEN << magic, Len(payload), 1, 2, 3, id >> \o payload \o Checksum
  ELSE << magic, Len(payload), 0, 0, 1, 2, 3 >> \o Le24(id) \o payload \o Checksum

\* Microsecond counts, as whole seconds and microseconds: zero, the values
\* around one second, the values around 2^50 us (1125899906 s + 842624 us)
\* and a date of 2023.
TimeValues ==
  { [secs |-> 0, us |-> 0], [secs |-> 0, us |-> 1], [secs |-> 0, us |-> 500000],
    [secs |-> 0, us |-> 999999], [secs |-> 1, us |-> 0], [secs |-> 1, us |-> 1],
    [secs |-> 2, us |-> 0], [secs |-> 86400, us |-> 42],
    [secs |-> 1125899906, us |-> 842623], [secs |-> 1125899906, us |-> 842624],
    [secs |-> 1125899906, us |-> 842625], [secs |-> 1125899907, us |-> 0],
    [secs |-> 1700000000, us |-> 7] }

RECURSIVE Scale(_, _, _)
\* the bytes of digits * m + carry, least significant first
Scale(digits, m, carry) ==
  IF digits = << >>
  THEN IF carry = 0 THEN << >>
       ELSE << carry % 256 >> \o Scale(<< >>, m, carry \div 256)
  ELSE << (Head(digits) * m + carry) % 256 >>
         \o Scale(Tail(digits), m, (Head(digits) * m + carry) \div 256)

\* the 8 bytes a sender writes for the time stamp t
UsecBytes(t) == SetSize(Scale(ToBytes(t.secs, 4), 1000000, t.us), 8)

\* command ids on the wire: a command, the end marker of the enum and an id
\* the enum does not have
CommandIds == {16, 17, 99}

\* the payloads sent for a message id; a command message with arguments is
\* also sent with its trailing bytes, the command id among them, cut off
PayloadsOf(id) ==
  CASE id = 2 -> { UsecBytes(t) : t \in TimeValues }
    [] id = 3 -> { PayloadBytes(8) }
    [] id \in {75, 76} ->
         { PayloadBytes(4) \o ToBytes(c, 2) \o << 7 >> : c \in CommandIds }
           \cup { PayloadBytes(4) }
    [] id = 77 -> { ToBytes(c, 2) \o << 7 >> : c \in CommandIds }

\* one packet of a registered message, and at most MaxGap bytes that are no
\* magic value after it
PayloadInit ==
  /\ \E magic \in {253, 254}, k \in 2..Len(Msgs), h \in 0..MaxGap :
       \E payload \in PayloadsOf(Msgs[k].id) :
         buffer = PacketOf(magic, Msgs[k].id, payload) \o Garbage(h)
  /\ unknownFrameBeginOffset = 0
  /\ other = NoOther
  /\ Entered

PayloadSpec == PayloadInit /\ [][Next]_vars

\* the message of the current packet
OwnMsg == LET Is(m) == m.id = OwnMsgId IN First(Msgs, Is, Msgs[1])

\* the payload procedure of the current packet has just run
Decoded == pc = "crc" /\ OwnRegistered

\* the indices of the field items of the current packet, and the k-th one
FieldIdx == { k \in (LastPayloadIdx + 1)..Len(emitted) : emitted[k].kind = "field" }

FieldSeq == SelectSeq(SubSeq(emitted, LastPayloadIdx + 1, Len(emitted)),
                      LAMBDA it : it.kind = "field")

\* the time stamp t was sent, and has been decoded
TimeDecoded(t) ==
  /\ Decoded
  /\ OwnMsgId = 2
  /\ SubSeq(buffer, PayloadStart + 1, PayloadStart + 8) = UsecBytes(t)

\* t is after 2^50 us
AfterThreshold(t) ==
  t.secs > 1125899906 \/ (t.secs = 1125899906 /\ t.us > 842624)

\* n with six digits
SixDigits(n) == SubSeq(ToString(1000000 + n), 2, 7)

\* the annotation of the microsecond count t
Annotation(t) ==
  IF AfterThreshold(t)
  THEN " (" \o os_date(t.secs) \o "." \o SixDigits(t.us) \o os_date_Z(t.secs) \o ")"
  ELSE IF t.secs = 0 THEN ""
  ELSE " (" \o ToString(t.secs) \o "." \o SixDigits(t.us) \o " s)"

\* the text appended to the one field of the current packet
OwnText == FieldSeq[1].text

\* C11: time_usec_decode puts a microsecond count V into exactly one of
\* three cases: V above the threshold 2^50 gives the calendar annotation
\* with V mod 1,000,000 as six digits; V below 1,000,000 gives the empty
\* annotation; every other V, 1,000,000 and the threshold among them, gives
\* V / 1,000,000 seconds with six fractional digits.
C11_TimeAnnotation ==
  /\ \A t \in TimeValues :
       TimeDecoded(t) => Len(FieldSeq) = 1 /\ OwnText = Annotation(t)
  /\ TimeDecoded([secs |-> 0, us |-> 500000]) => OwnText = ""
  /\ TimeDecoded([secs |-> 1, us |-> 0]) => OwnText = " (1.000000 s)"
  /\ TimeDecoded([secs |-> 2, us |-> 0]) => OwnText = " (2.000000 s)"
  /\ TimeDecoded([secs |-> 1125899906, us |-> 842624]) =>
       OwnText = " (1125899906.842624 s)"
  /\ TimeDecoded([secs |-> 1125899906, us |-> 842625]) =>
       OwnText = " (date(1125899906).842625 %Z)"

C11_Witness ==
  /\ Decoded
  /\ OwnMsgId = 2
  /\ FieldSeq[1].data = << 0, 0, 0, 0, 0, 0, 4, 0 >>
  /\ FieldSeq[1].text = " (1125899906.842624 s)"

\* the reads of the fields of message m, in declaration order: the offset in
\* the payload and the number of bytes of each
FieldReads(m) ==
  Flatten([k \in 1..Len(m.fields) |->
    LET fld == m.fields[k] IN
    IF fld.type = "char" THEN << << fld.offset, fld.array_length >> >>
    ELSE [i \in 1..(IF fld.array_length > 0 THEN fld.array_length ELSE 1) |->
            << fld.offset + (i - 1) * fld.type_length, fld.type_length >>]])

\* the buffer holds the full wire length of the message of the current packet
FullLength ==
  /\ OwnLength = OwnMsg.wire_length
  /\ PayloadStart + OwnMsg.wire_length <= BufLen - 2

\* C14: over a buffer that holds the full wire length of message M, the
\* decode step of each field (of each element of an array that is no
\* character array) reads exactly width bytes at payload_start + offset +
\* i * width, a character array is read once as array-length bytes, the bytes
\* read are those of the buffer at that place, and the ranges of distinct
\* fields and elements are disjoint and inside the wire length.
C14_FieldReads ==
  (Decoded /\ FullLength) =>
    /\ Len(FieldSeq) = Len(FieldReads(OwnMsg))
    /\ \A k \in 1..Len(FieldSeq) :
         /\ FieldSeq[k].off = PayloadStart + FieldReads(OwnMsg)[k][1]
         /\ FieldSeq[k].len = FieldReads(OwnMsg)[k][2]
         /\ FieldSeq[k].view = "buffer"
         /\ FieldSeq[k].data =
              SubSeq(buffer, FieldSeq[k].off + 1, FieldSeq[k].off + FieldSeq[k].len)
         /\ FieldSeq[k].off >= PayloadStart
         /\ FieldSeq[k].off + FieldSeq[k].len <= PayloadStart + OwnMsg.wire_length
    /\ \A j, k \in 1..Len(FieldSeq) :
         j # k => \/ FieldSeq[j].off + FieldSeq[j].len <= FieldSeq[k].off
                  \/ FieldSeq[k].off + FieldSeq[k].len <= FieldSeq[j].off

C14_Witness ==
  /\ Decoded
  /\ FullLength
  /\ OwnMsgId = 3
  /\ Len(FieldSeq) = 4
  /\ FieldSeq[2].name = "LOG_text" /\ FieldSeq[2].len = 3
  /\ FieldSeq[4].name = "LOG_v_1" /\ FieldSeq[4].data = << 35, 36 >>

\* a byte of the payload as the procedure sees it: beyond the end of the
\* payload it is zero
ObservedByte(pos) == IF pos < OwnLimit THEN buffer[pos + 1] ELSE 0

\* the offset of the command id in the payload of message m
CommandOffset(m) ==
  LET ks == { k \in 1..Len(m.fields) : m.fields[k].name = "command" }
  IN  m.fields[CHOOSE k \in ks : TRUE].offset

\* the command id of the current packet
ObservedCmd ==
  ObservedByte(PayloadStart + CommandOffset(OwnMsg))
    + 256 * ObservedByte(PayloadStart + CommandOffset(OwnMsg) + 1)

\* the MAV_CMD enum has an entry of the value
HasEntry(id) == \E k \in 1..Len(Cmds) : Cmds[k].value = id

\* the item of the read of the command id, and of the name put in the summary
CmdIdx == { k \in (LastPayloadIdx + 1)..Len(emitted) : emitted[k].kind = "cmd_id" }

InfoIdx == { k \in (LastPayloadIdx + 1)..Len(emitted) : emitted[k].kind = "info" }

\* C18: in the generic procedure of a command message with arguments the
\* command id is looked up first: when the enum has an entry of that value
\* the procedure specialized for (message id, command id) decodes the
\* fields and no generic field step runs, otherwise the generic steps decode
\* every field; exactly one of the two runs, for every packet.
C18_DispatchOrGeneric ==
  (Decoded /\ OwnMsg.name \in ArgKinds) =>
    /\ Len(FieldSeq) = Len(FieldReads(OwnMsg))
    /\ \A c \in CmdIdx : \A k \in FieldIdx : c < k
    /\ CmdIdx # {}
    /\ \A k \in 1..Len(FieldSeq) :
         FieldSeq[k].by =
           IF HasEntry(ObservedCmd)
           THEN "payload_" \o ToString(OwnMsgId) \o "_cmd" \o ToString(ObservedCmd)
           ELSE "payload_" \o ToString(OwnMsgId)

C18_Witness ==
  /\ Decoded
  /\ OwnMsgId = 76
  /\ ObservedCmd = 16
  /\ \E k \in 1..Len(FieldSeq) :
       FieldSeq[k].name = "cmd_NAV_param5" /\ FieldSeq[k].by = "payload_76_cmd16"

\* the names the command name table has for a value
ResolvedNames(id) ==
  { Cmds[k].name : k \in { j \in 1..Len(Cmds) :
      Cmds[j].value = id /\ ~EndsWith(Cmds[j].name, "_ENUM_END") } }

\* C19: for every command message kind the command id is read and its name
\* put in the summary before any field is decoded; the name is put there
\* exactly once per packet, also when a specialized procedure decodes the
\* fields, and nothing is put there for an id the name table does not have.
C19_CommandNameFirst ==
  (Decoded /\ OwnMsg.name \in CommandKinds) =>
    /\ Cardinality(CmdIdx) = 1
    /\ \A c \in CmdIdx :
         /\ emitted[c].off = PayloadStart + CommandOffset(OwnMsg)
         /\ emitted[c].len = 2
         /\ \A k \in FieldIdx : c < k
    /\ FieldIdx # {}
    /\ IF ResolvedNames(ObservedCmd) = {} THEN InfoIdx = {}
       ELSE /\ Cardinality(InfoIdx) = 1
            /\ \A i \in InfoIdx :
                 /\ emitted[i].name \in ResolvedNames(ObservedCmd)
                 /\ \A c \in CmdIdx : c < i
                 /\ \A k \in FieldIdx : i < k

C19_Witness ==
  /\ Decoded
  /\ OwnMsgId = 75
  /\ ObservedCmd = 16
  /\ \E i \in InfoIdx : emitted[i].name = "NAV"
  /\ \E k \in 1..Len(FieldSeq) : FieldSeq[k].by = "payload_75_cmd16"

----------------------------------------------------------------------------
(***************************************************************************)
(* Run time: packets that declare every payload length up to the wire      *)
(* length of their message, followed by checksum, signature, unknown bytes *)
(* and a next packet (specification ShortSpec).                            *)
(***************************************************************************)
\* a packet of a message id with a payload and the incompatibility flags
SentPacket(magic, flag, id, payload) ==
  IF IsLegacy(magic)
  THEN << magic, Len(payload), 1, 2, 3, id >> \o payload \o Checksum
  ELSE << magic, Len(payload), flag, 0, 1, 2, 3 >> \o Le24(id) \o payload
         \o Checksum \o (IF flag % 2 = 1 THEN SignatureBlock ELSE << >>)

\* the full payloads of message m
Wires(m) ==
  IF m.id = 1 THEN { PayloadBytes(m.wire_length) } ELSE PayloadsOf(m.id)

\* One packet of a registered message whose payload is any leading part of
\* a full payload, at most MaxGap bytes that are no magic value and a next
\* packet after it, and every part of that a capture cut short.
ShortInit ==
  /\ \E k \in 1..Len(Msgs), h \in 0..MaxGap, q \in NextPackets \cap LegacyKnown,
        form \in { << 254, 0 >>, << 253, 0 >>, << 253, 1 >> } :
       \E w \in Wires(Msgs[k]) : \E n \in 0..Len(w) :
         LET b == SentPacket(form[1], form[2], Msgs[k].id, SubSeq(w, 1, n))
                    \o Garbage(h) \o Packet(q)
         IN  \E c \in 1..Len(b) : buffer = SubSeq(b, 1, c)
  /\ unknownFrameBeginOffset = 0
  /\ other = NoOther
  /\ Entered

ShortSpec == ShortInit /\ [][Next]_vars

\* the end of the payload the current packet declares
DeclaredEnd == PayloadStart + OwnLength

\* the payload procedure of a registered message has just run on a packet
\* that declares less than the wire length of the message and has at least
\* n bytes after the declared end of its payload
ShortDeclared(n) ==
  /\ Decoded
  /\ OwnLength < OwnMsg.wire_length
  /\ DeclaredEnd + n <= BufLen

\* the items of the current packet that hold bytes read for a field or for
\* the command id
ByteItems ==
  { emitted[k] : k \in { j \in (LastPayloadIdx + 1)..Len(emitted) :
                           emitted[j].kind \in {"field", "cmd_id"} } }

\* every field byte at or beyond the declared end is zero, and is not the
\* buffer byte at that place; every field byte before it has its buffer
\* value; the bytes are those of the wire length of the message
ZeroFilled ==
  /\ ByteItems # {}
  /\ \A it \in ByteItems :
       /\ it.view = "padded"
       /\ it.off >= PayloadStart
       /\ it.off + it.len <= PayloadStart + OwnMsg.wire_length
       /\ \A j \in 1..it.len :
            LET pos == it.off + j - 1
            IN  IF pos < DeclaredEnd THEN it.data[j] = buffer[pos + 1]
                ELSE /\ it.data[j] = 0
                     /\ pos < BufLen => it.data[j] # buffer[pos + 1]

\* C22 as stated: when the declared payload length of a registered message
\* is shorter than its wire length and more bytes follow in the buffer,
\* every field byte at or beyond the declared end decodes as zero, not as
\* the byte that follows, and every field byte before the declared end has
\* its buffer value.
C22_ShortPayloadZeroFilled == ShortDeclared(1) => ZeroFilled

\* C22 as amended: the same when at least two bytes follow the declared end
\* (the two last bytes of the buffer are kept for the checksum).
C22_ShortPayloadBeforeChecksum == ShortDeclared(2) => ZeroFilled

C22_Witness ==
  /\ ShortDeclared(2)
  /\ OwnMsgId = 3
  /\ OwnLength = 3
  /\ incompatibility_flag = 1
  /\ BufLen > DeclaredEnd + 15
  /\ \E it \in ByteItems : it.name = "LOG_v_1" /\ it.data = << 35, 0 >>
  /\ \E it \in ByteItems : it.name = "LOG_level" /\ it.data = << 0 >>

----------------------------------------------------------------------------
(***************************************************************************)
(* Generation time: generate(), one action per emitter call, over input    *)
(* models drawn from a bounded family.                                     *)
(***************************************************************************)
MaxEntries == 3

Entry(name, value) == [name |-> name, value |-> value, param |-> << >>]

\* the entries a bitmask enum F is declared from: a zero value, two single
\* bits, a composite mask and the end marker
FlagUniverse ==
  { Entry("F_NONE", 0), Entry("F_A", 1), Entry("F_B", 2), Entry("F_AB", 3),
    Entry("F_ENUM_END", 4) }

\* the sequences of at most n distinct elements of S
RECURSIVE Arrangements(_, _)
Arrangements(S, n) ==
  IF n = 0 THEN { << >> }
  ELSE { << >> } \cup
       UNION { { << x >> \o t : t \in Arrangements(S \ {x}, n - 1) } : x \in S }

\* a command param: no label, a label, or a label and an enum
ParamChoices(index) ==
  { [index |-> index, label |-> l, enum |-> e] :
      << l, e >> \in { << "", "" >>, << "Lat", "" >>, << "Kind", "E" >>,
                       << "Mask", "F" >> } }

Float(name, off) ==
  [name |-> name, type |-> "float", type_length |-> 4, array_length |-> 0,
   offset |-> off, enum |-> "", units |-> "", display |-> ""]

Int32(name, off) ==
  [name |-> name, type |-> "int32_t", type_length |-> 4, array_length |-> 0,
   offset |-> off, enum |-> "", units |-> "", display |-> ""]

Uint(name, bytes, count, off, enum) ==
  [name |-> name, type |-> IF bytes = 2 THEN "uint16_t" ELSE "uint8_t",
   type_length |-> bytes, array_length |-> count, offset |-> off,
   enum |-> enum, units |-> "", display |-> IF enum = "F" THEN "bitmask" ELSE ""]

\* the messages of the input models: the four command kinds with arguments
\* (their param1, the slots 5 to 7 and the command id) and a message with a
\* bitmask field and an array
GenMsgs ==
  << [id |-> 75, name |-> "COMMAND_INT", wire_length |-> 35,
      fields |-> << Float("param1", 0), Int32("x", 16), Int32("y", 20),
                    Float("z", 24), Uint("command", 2, 0, 28, "MAV_CMD") >>],
     [id |-> 76, name |-> "COMMAND_LONG", wire_length |-> 33,
      fields |-> << Float("param1", 0), Float("param5", 16), Float("param6", 20),
                    Float("param7", 24), Uint("command", 2, 0, 28, "MAV_CMD") >>],
     [id |-> 39, name |-> "MISSION_ITEM", wire_length |-> 37,
      fields |-> << Float("param1", 0), Float("x", 16), Float("y", 20),
                    Float("z", 24), Uint("command", 2, 0, 30, "MAV_CMD") >>],
     [id |-> 73, name |-> "MISSION_ITEM_INT", wire_length |-> 37,
      fields |-> << Float("param1", 0), Int32("x", 16), Int32("y", 20),
                    Float("z", 24), Uint("command", 2, 0, 30, "MAV_CMD") >>],
     [id |-> 1, name |-> "STATUS", wire_length |-> 3,
      fields |-> << Uint("mode", 1, 0, 2, "F"), Uint("data", 1, 2, 0, "") >>] >>

GenEnums(p5, p6, p7, flags) ==
  << [name |-> "MAV_CMD", bitmask |-> FALSE,
      entry |-> << [name |-> "NAV", value |-> 16,
                    param |-> << [index |-> 1, label |-> "Hold", enum |-> ""],
                                 p5, p6, p7 >>],
                   Entry("MAV_CMD_ENUM_END", 17) >>],
     [name |-> "E", bitmask |-> FALSE,
      entry |-> << Entry("E_A", 0), Entry("E_B", 1), Entry("E_ENUM_END", 2) >>],
     [name |-> "F", bitmask |-> TRUE, entry |-> flags] >>

\* next((enum.entry for enum in enums if enum.name == "MAV_CMD"), [])
CmdsOf(enums) == EnumObj(enums, "MAV_CMD").entry

\* the generator has not run: the state of the run-time variables
RtIdle ==
  /\ buffer = << >>
  /\ pc = "done"
  /\ offset = 0
  /\ msgCount = 0
  /\ version = Nil
  /\ msgid = Nil
  /\ length = Nil
  /\ incompatibility_flag = Nil
  /\ unknownFrameBeginOffset = 0
  /\ pktStart = Nil
  /\ emitted = << >>
  /\ other = NoOther

GenStart ==
  /\ gpc = "enum_table"
  /\ gi = 1
  /\ enumEntryName = << >>
  /\ f = << >>
  /\ dissect_flags = << >>
  /\ procs = << >>

\* input models that differ in the params 5, 6 and 7 of the command
GenInit ==
  /\ \E p5 \in ParamChoices(5), p6 \in ParamChoices(6), p7 \in ParamChoices(7) :
       xml = [enums |-> GenEnums(p5, p6, p7,
                                 << Entry("F_NONE", 0), Entry("F_B", 2),
                                    Entry("F_A", 1), Entry("F_ENUM_END", 4) >>),
              msgs |-> GenMsgs]
  /\ GenStart
  /\ RtIdle

\* input models that differ in the entries of the bitmask enum and their order
FlagInit ==
  /\ \E flags \in Arrangements(FlagUniverse, MaxEntries) \ { << >> } :
       xml = [enums |-> GenEnums([index |-> 5, label |-> "Lat", enum |-> ""],
                                 [index |-> 6, label |-> "Mask", enum |-> "F"],
                                 [index |-> 7, label |-> "", enum |-> ""], flags),
              msgs |-> GenMsgs]
  /\ GenStart
  /\ RtIdle

\* the for loop of an emitter moves on, or the next emitter starts
Advance(n, nextpc) ==
  IF gi < n THEN gi' = gi + 1 /\ gpc' = gpc
  ELSE gi' = 1 /\ gpc' = nextpc

GenerateEnumTable ==
  /\ gpc = "enum_table"
  /\ enumEntryName' = generate_enum_table(xml.enums)
  /\ gpc' = "cmd_params"
  /\ UNCHANGED << xml, gi, f, dissect_flags, procs, rtvars >>

\* for c in cmds: generate_cmd_params(outf, c, enums)
GenerateCmdParams ==
  /\ gpc = "cmd_params"
  /\ f' = f \o generate_cmd_params(CmdsOf(xml.enums)[gi], xml.enums)
  /\ Advance(Len(CmdsOf(xml.enums)), "msg_fields")
  /\ UNCHANGED << xml, enumEntryName, dissect_flags, procs, rtvars >>

\* for m in msgs: generate_msg_fields(outf, m, enums)
GenerateMsgFields ==
  /\ gpc = "msg_fields"
  /\ f' = f \o generate_msg_fields(xml.msgs[gi], xml.enums)
  /\ Advance(Len(xml.msgs), "flag_enum_dissector")
  /\ UNCHANGED << xml, enumEntryName, dissect_flags, procs, rtvars >>

\* for e in enums: if e.bitmask: generate_flag_enum_dissector(outf, e)
GenerateFlagEnumDissector ==
  /\ gpc = "flag_enum_dissector"
  /\ dissect_flags' =
       IF xml.enums[gi].bitmask
       THEN Append(dissect_flags, generate_flag_enum_dissector(xml.enums[gi]))
       ELSE dissect_flags
  /\ Advance(Len(xml.enums), "payload_dissector")
  /\ UNCHANGED << xml, enumEntryName, f, procs, rtvars >>

\* for m in msgs: generate_payload_dissector(outf, m, cmds, enums)
GeneratePayloadDissector ==
  /\ gpc = "payload_dissector"
  /\ procs' = procs \o generate_payload_dissector(xml.msgs[gi], CmdsOf(xml.enums),
                                                  xml.enums)
  /\ Advance(Len(xml.msgs), "done")
  /\ UNCHANGED << xml, enumEntryName, f, dissect_flags, rtvars >>

GenNext ==
  \/ GenerateEnumTable
  \/ GenerateCmdParams
  \/ GenerateMsgFields
  \/ GenerateFlagEnumDissector
  \/ GeneratePayloadDissector

GenSpec == GenInit /\ [][GenNext]_vars

FlagSpec == FlagInit /\ [][GenNext]_vars

----------------------------------------------------------------------------
(***************************************************************************)
(* Properties of the generation-time part (GenSpec, FlagSpec).             *)
(***************************************************************************)
Generated == gpc = "done"

\* the coordinate name of a slot
Coordinate(i) == CASE i = 5 -> "x" [] i = 6 -> "y" [] i = 7 -> "z"

\* the type of the ProtoField line that defines f.<name> ("" if none does)
DescriptorType(name) ==
  LET ks == { k \in 1..Len(f) : f[k].fname = name }
  IN  IF ks = {} THEN "" ELSE f[CHOOSE k \in ks : \A j \in ks : j <= k].ftype

\* the params of command c at index i that carry a label
LabeledParams(c, i) ==
  { c.param[k] : k \in { j \in 1..Len(c.param) :
                           c.param[j].index = i /\ c.param[j].label # "" } }

\* the emitted procedures under a key
ProcsKeyed(key) == { procs[k] : k \in { j \in 1..Len(procs) : procs[j].key = key } }

\* the steps of procedure pr that read the wire slot i of message m
SlotSteps(pr, m, i) ==
  { pr.steps[k] : k \in { j \in 1..Len(pr.steps) :
      \E n \in 1..Len(m.fields) :
        ParamIndex(m.fields[n].name) = i
          /\ pr.steps[j].foffset = m.fields[n].offset } }

ArgMsgs == { xml.msgs[k] : k \in { j \in 1..Len(xml.msgs) : xml.msgs[j].name \in ArgKinds } }

IntKinds == {"COMMAND_INT", "MISSION_ITEM_INT"}

\* The specialized procedure of message m for command c decodes slot i
\* through the descriptor of the given name and type.
SlotDecodedAs(m, c, i, name, type) ==
  LET key == "payload_" \o ToString(m.id) \o "_cmd" \o ToString(c.value)
  IN  /\ Cardinality(ProcsKeyed(key)) = 1
      /\ \A pr \in ProcsKeyed(key) :
           /\ Cardinality(SlotSteps(pr, m, i)) = 1
           /\ \A st \in SlotSteps(pr, m, i) :
                st.fvar = name /\ st.fbytes = 4 /\ DescriptorType(name) = type

\* Slot i of command c goes through the coordinate descriptor in the _INT
\* kinds and through the paramN descriptor in the others, with these types.
SlotRule(c, i, intType, floatType) ==
  \A m \in ArgMsgs :
    IF m.name \in IntKinds
    THEN SlotDecodedAs(m, c, i, "cmd_" \o c.name \o "_" \o Coordinate(i),
                       IF i = 7 THEN floatType ELSE intType)
    ELSE SlotDecodedAs(m, c, i, "cmd_" \o c.name \o "_param" \o ToString(i),
                       floatType)

\* C9 as stated: for every command with a labeled param at index 5 (6), the
\* specialized procedure of an _INT kind decodes the slot through the signed
\* 32-bit x (y) descriptor and that of the other kinds through the float
\* param5 (param6) descriptor; slot 7 is float in both.
C9_IntKindsUseCoordinates ==
  Generated =>
    \A k \in 1..Len(CmdsOf(xml.enums)) : \A i \in {5, 6, 7} :
      \A p \in LabeledParams(CmdsOf(xml.enums)[k], i) :
        SlotRule(CmdsOf(xml.enums)[k], i, "ftypes.INT32", "ftypes.FLOAT")

\* C9 as amended: the same for a labeled param without an enum reference;
\* for one with an enum reference the same descriptors (x, y, z in the _INT
\* kinds, paramN in the others) are used and their type is unsigned 32-bit.
C9_CoordinatesUnlessEnum ==
  Generated =>
    \A k \in 1..Len(CmdsOf(xml.enums)) : \A i \in {5, 6, 7} :
      \A p \in LabeledParams(CmdsOf(xml.enums)[k], i) :
        IF p.enum = ""
        THEN SlotRule(CmdsOf(xml.enums)[k], i, "ftypes.INT32", "ftypes.FLOAT")
        ELSE SlotRule(CmdsOf(xml.enums)[k], i, "ftypes.UINT32", "ftypes.UINT32")

C9_Witness ==
  /\ Generated
  /\ \E p \in LabeledParams(CmdsOf(xml.enums)[1], 5) : p.enum = ""
  /\ \E p \in LabeledParams(CmdsOf(xml.enums)[1], 6) : p.enum # ""
  /\ \E pr \in ProcsKeyed("payload_75_cmd16") :
       \E k \in 1..Len(pr.steps) : pr.steps[k].fvar = "cmd_NAV_x"
  /\ \E pr \in ProcsKeyed("payload_76_cmd16") :
       \E k \in 1..Len(pr.steps) : pr.steps[k].fvar = "cmd_NAV_param5"

\* a nonzero power of two
IsPowerOfTwo(v) == \E k \in 0..16 : v = 2 ^ k

Entries(enum) == { enum.entry[k] : k \in 1..Len(enum.entry) }

\* the flags of a bitmask enum: the names of its entries whose value is a
\* nonzero power of two, without the end marker
FlagSet(enum) ==
  { e.name : e \in { e \in Entries(enum) :
                       IsPowerOfTwo(e.value) /\ ~EndsWith(e.name, "_ENUM_END") } }

BitmaskEnums == { xml.enums[k] : k \in { j \in 1..Len(xml.enums) : xml.enums[j].bitmask } }

\* the ProtoField lines of the fields and params that refer to enum
DescriptorsOf(enum) ==
  { f[k] : k \in { j \in 1..Len(f) : f[j].parent = "" /\ f[j].ftypename = enum.name } }

\* the flag sub-fields emitted under descriptor d
SubFlags(d) == { f[k].ename : k \in { j \in 1..Len(f) : f[j].parent = d.fname } }

\* the flags dissect_flags_<enum> adds
DissectedFlags(enum) ==
  UNION { { fn.flags[k].name : k \in 1..Len(fn.flags) } :
            fn \in { dissect_flags[k] : k \in { j \in 1..Len(dissect_flags) :
                       dissect_flags[j].enumname = enum.name } } }

\* the pairs of the value -> name table of enum
NameTable(enum) ==
  UNION { enumEntryName[k].names : k \in { j \in 1..Len(enumEntryName) :
            enumEntryName[j].enumname = enum.name } }

\* C10: for every bitmask enum, the flag sub-fields of each field of that
\* enum and the flags its dissect_flags procedure tests are exactly the
\* entries with a nonzero power-of-two value other than the end marker, in
\* any declaration order; zero and composite entries stay in the name table.
C10_FlagsArePowersOfTwo ==
  Generated =>
    \A enum \in BitmaskEnums :
      /\ DescriptorsOf(enum) # {}
      /\ \A d \in DescriptorsOf(enum) : SubFlags(d) = FlagSet(enum)
      /\ DissectedFlags(enum) = FlagSet(enum)
      /\ NameTable(enum) =
           { << e.value, e.name >> :
               e \in { e \in Entries(enum) : ~EndsWith(e.name, "_ENUM_END") } }

C10_Witness ==
  /\ Generated
  /\ \E enum \in BitmaskEnums :
       /\ Len(enum.entry) = 3
       /\ enum.entry[1].name = "F_ENUM_END"
       /\ enum.entry[2].value = 0
       /\ enum.entry[3].value = 2
       /\ DissectedFlags(enum) = {"F_B"}
       /\ << 0, "F_NONE" >> \in NameTable(enum)

\* the names of the two descriptors of a param of command c at index i
ParamName(c, i) == "cmd_" \o c.name \o "_param" \o ToString(i)

CoordinateName(c, i) == "cmd_" \o c.name \o "_" \o Coordinate(i)

\* the ProtoField.new lines that define f.<name>
Defining(name) == { k \in 1..Len(f) : f[k].fname = name /\ f[k].parent = "" }

\* the flag sub-fields emitted under the descriptor of a name
FlagsUnder(name) == { f[k].ename : k \in { j \in 1..Len(f) : f[j].parent = name } }

\* exactly one descriptor of the name is emitted, with the type
OneDescriptor(name, type) ==
  /\ Cardinality(Defining(name)) = 1
  /\ \A k \in Defining(name) : f[k].ftype = type

\* the descriptors of a labeled param at index i, with these types
ParamDescriptors(c, i, floatType, intType) ==
  /\ OneDescriptor(ParamName(c, i), floatType)
  /\ i \in {5, 6, 7} =>
       OneDescriptor(CoordinateName(c, i), IF i = 7 THEN floatType ELSE intType)

\* a param without a label has no descriptor
NoDescriptors(c, i) ==
  /\ Defining(ParamName(c, i)) = {}
  /\ i \in {5, 6, 7} => Defining(CoordinateName(c, i)) = {}

\* the flags of the enum of a name, none when it is no bitmask enum
FlagsOf(enums, name) ==
  IF EnumObj(enums, name).bitmask THEN FlagSet(EnumObj(enums, name)) ELSE {}

\* C20 as stated: for every command and each of its params, a param without
\* a label yields no descriptor, a labeled param at index i yields one float
\* descriptor param<i>, and for i in 5, 6, 7 a second one named x, y, z that
\* is signed 32-bit for 5 and 6 and float for 7.
C20_ParamDescriptors ==
  Generated =>
    \A n \in 1..Len(CmdsOf(xml.enums)) :
      LET c == CmdsOf(xml.enums)[n] IN
      \A k \in 1..Len(c.param) :
        IF c.param[k].label = "" THEN NoDescriptors(c, c.param[k].index)
        ELSE ParamDescriptors(c, c.param[k].index, "ftypes.FLOAT", "ftypes.INT32")

\* C20 as amended: the same for a param without an enum reference; the
\* descriptors of a labeled param with an enum reference are typed unsigned
\* 32-bit, and each has the flag sub-fields of that enum when it is a
\* bitmask enum.
C20_ParamDescriptorsUnlessEnum ==
  Generated =>
    \A n \in 1..Len(CmdsOf(xml.enums)) :
      LET c == CmdsOf(xml.enums)[n] IN
      \A k \in 1..Len(c.param) :
        LET p == c.param[k] IN
        IF p.label = "" THEN NoDescriptors(c, p.index)
        ELSE IF p.enum = ""
        THEN /\ ParamDescriptors(c, p.index, "ftypes.FLOAT", "ftypes.INT32")
             /\ FlagsUnder(ParamName(c, p.index)) = {}
             /\ p.index \in {5, 6, 7} => FlagsUnder(CoordinateName(c, p.index)) = {}
        ELSE /\ ParamDescriptors(c, p.index, "ftypes.UINT32", "ftypes.UINT32")
             /\ FlagsUnder(ParamName(c, p.index)) = FlagsOf(xml.enums, p.enum)
             /\ p.index \in {5, 6, 7} =>
                  FlagsUnder(CoordinateName(c, p.index)) = FlagsOf(xml.enums, p.enum)

C20_Witness ==
  /\ Generated
  /\ LET c == CmdsOf(xml.enums)[1] IN
     /\ c.param[2].label # "" /\ c.param[2].enum = ""
     /\ c.param[3].label = ""
     /\ c.param[4].enum = "F"
     /\ OneDescriptor("cmd_NAV_x", "ftypes.INT32")
     /\ Defining("cmd_NAV_y") = {}
     /\ FlagsUnder("cmd_NAV_z") = {"F_A", "F_B"}

\* the decode steps of the emitted procedures
Steps ==
  UNION { { procs[k].steps[j] : j \in 1..Len(procs[k].steps) } : k \in 1..Len(procs) }

\* the names of the emitted descriptors: the keys of the table f
DescriptorNames == { f[k].fname : k \in 1..Len(f) }

\* the names the step st refers to when it runs: f.<fvar>, and through its
\* dissect_flags_<enum> call f[<fvar> .. "_flag<entry>"] for each flag entry
\* that procedure adds
Referenced(st) ==
  {st.fvar} \cup
  UNION { { st.fvar \o "_flag" \o fn.flags[k].name : k \in 1..Len(fn.flags) } :
            fn \in { dissect_flags[k] : k \in { j \in 1..Len(dissect_flags) :
                       dissect_flags[j].enumname = st.flags_enum } } }

\* the dissect_flags procedure a step calls is emitted
FlagsProcedureEmitted(st) ==
  st.flags_enum # "" =>
    \E k \in 1..Len(dissect_flags) : dissect_flags[k].enumname = st.flags_enum

\* C23: every descriptor name a decode step refers to - that of a message
\* field or array element, of a command param as paramN or as x, y, z, or of
\* a flag sub-field added by the dissect_flags procedure it calls - is the
\* name of a descriptor emitted for the same input model.
C23_StepsReferEmitted ==
  \A st \in Steps :
    /\ Referenced(st) \subseteq DescriptorNames
    /\ FlagsProcedureEmitted(st)

C23_Witness ==
  /\ Generated
  /\ \E pr \in ProcsKeyed("payload_73_cmd16") : \E k \in 1..Len(pr.steps) :
       /\ pr.steps[k].fvar = "cmd_NAV_z"
       /\ Referenced(pr.steps[k]) = {"cmd_NAV_z", "cmd_NAV_z_flagF_A", "cmd_NAV_z_flagF_B"}
  /\ \E pr \in ProcsKeyed("payload_76_cmd16") : \E k \in 1..Len(pr.steps) :
       "cmd_NAV_param7_flagF_B" \in Referenced(pr.steps[k])
  /\ \E pr \in ProcsKeyed("payload_1") : \E k \in 1..Len(pr.steps) :
       pr.steps[k].fvar = "STATUS_data_1"
  /\ \E st \in Steps : st.fvar = "STATUS_mode" /\ "STATUS_mode_flagF_A" \in Referenced(st)

----------------------------------------------------------------------------
(***************************************************************************)
(* Generation time: input models that differ in the fields of two messages *)
(* (specification NameSpec).                                               *)
(***************************************************************************)
\* the most elements an array field of these models has
MaxElems == 2

\* a field of one-byte elements: a name, and 0 for a scalar or the number of
\* elements of an array
Shapes == [name : {"v", "v_1", "w"}, count : {0} \cup 2..MaxElems]

\* the bytes a field of the shape takes
ShapeBytes(a) == IF a.count > 0 THEN a.count ELSE 1

\* a message of two fields, one after the other in the payload
NameMsg(id, name, a, b) ==
  [id |-> id, name |-> name, wire_length |-> ShapeBytes(a) + ShapeBytes(b),
   fields |-> << Uint(a.name, 1, a.count, 0, ""),
                 Uint(b.name, 1, b.count, ShapeBytes(a), "") >>]

\* input models with two messages, each of two fields of different names
NameInit ==
  /\ \E a \in Shapes, b \in Shapes, c \in Shapes, d \in Shapes :
       /\ a.name # b.name
       /\ c.name # d.name
       /\ xml = [enums |-> GenEnums([index |-> 5, label |-> "Lat", enum |-> ""],
                                    [index |-> 6, label |-> "Mask", enum |-> "F"],
                                    [index |-> 7, label |-> "", enum |-> ""],
                                    << Entry("F_A", 1), Entry("F_B", 2),
                                       Entry("F_ENUM_END", 4) >>),
                 msgs |-> << NameMsg(1, "M", a, b), NameMsg(2, "N", c, d) >>]
  /\ GenStart
  /\ RtIdle

NameSpec == NameInit /\ [][GenNext]_vars

\* the (field, element) pairs of a message: one per element of an array that
\* is no character array, one per other field
ElementCount(msg) ==
  Len(Flatten([k \in 1..Len(msg.fields) |->
                 [j \in 1..get_field_info(msg.fields[k]).count |-> j]]))

\* the ProtoField.new lines among lines, in order
NewLines(lines) == SelectSeq(lines, LAMBDA d : d.parent = "")

\* C24: the mapping from (message, field, array index) to the descriptor
\* name is injective: generate_msg_fields emits one ProtoField.new line per
\* (field, element) of its message, and the name of each differs from the
\* names of the other lines of the message and of every line emitted before.
C24_FieldNamesInjective ==
  [][gpc = "msg_fields" =>
       LET lines == NewLines(SubSeq(f', Len(f) + 1, Len(f')))
       IN  /\ Len(lines) = ElementCount(xml.msgs[gi])
           /\ \A j, k \in 1..Len(lines) :
                j # k => lines[j].fname # lines[k].fname
           /\ \A j \in 1..Len(lines) : \A k \in 1..Len(f) :
                f[k].parent = "" => lines[j].fname # f[k].fname]_vars

=============================================================================
